---------------------------- MODULE Spec2Model ----------------------------
(***************************************************************************)
(* A model of tools/cmake2meson.py: the Lexer (a generator of Tokens), the *)
(* recursive-descent Parser (a generator of Statements) and the Converter  *)
(* (write_entry / convert, with its depth-first directory recursion).      *)
(*                                                                         *)
(* Text (source code, token values, output files) is a sequence of         *)
(* one-character strings, so that lexing, lower() and the formatting of    *)
(* output lines are computed character by character as the code does.      *)
(***************************************************************************)
EXTENDS Integers, Sequences, FiniteSets, TLC

(***************************************************************************)
(* Bounds of the model.                                                    *)
(***************************************************************************)
\* the number of statements (snippets) in the root directory's input file
MaxStmts == 2
\* the number of tokens of a token sequence handed to the parser
MaxToks == 4
\* the number of tokens between the parentheses of one command
MaxArgToks == 4

(***************************************************************************)
(* Characters.                                                             *)
(***************************************************************************)
Digits == {"0", "1", "2", "3", "4", "5", "6", "7", "8", "9"}

LowerSeq == <<"a", "b", "c", "d", "e", "f", "g", "h", "i", "j", "k", "l", "m",
              "n", "o", "p", "q", "r", "s", "t", "u", "v", "w", "x", "y", "z">>

UpperSeq == <<"A", "B", "C", "D", "E", "F", "G", "H", "I", "J", "K", "L", "M",
              "N", "O", "P", "Q", "R", "S", "T", "U", "V", "W", "X", "Y", "Z">>

LowerLetters == {LowerSeq[i] : i \in 1..Len(LowerSeq)}

UpperLetters == {UpperSeq[i] : i \in 1..Len(UpperSeq)}

\* str.lower() on one character
LowerChar(c) ==
    IF c \in UpperLetters
    THEN LowerSeq[CHOOSE i \in 1..Len(UpperSeq) : UpperSeq[i] = c]
    ELSE c

\* str.lower()
Lower(s) == [i \in 1..Len(s) |-> LowerChar(s[i])]

\* the character class of the 'ignore' pattern, [ \t]
IgnoreChars == {" ", "\t"}

\* the character class of the 'varexp' pattern, [-_0-9a-z/A-Z.]
VarexpChars == {"-", "_", "/", "."} \cup Digits \cup LowerLetters \cup UpperLetters

\* the character class of the 'id' pattern, [,-><${}=+_0-9a-z/A-Z@.*]
\* (",->" is the range from "," to ">")
IdChars ==
    {",", "-", ".", "/", ":", ";", "<", "=", ">"} \cup Digits
    \cup {"<", "$", "{", "}", "=", "+", "_", "/", "@", ".", "*"}
    \cup LowerLetters \cup UpperLetters

(***************************************************************************)
(* Token and the argument representations of a Statement.                  *)
(***************************************************************************)
\* Token(tid, value): lineno and colno are set to 0 and never changed
Token(tid, value) == [tid |-> tid, value |-> value, lineno |-> 0, colno |-> 0]

\* the Python list that Parser.arguments appends for a nested group
Group(items) == [tid |-> "list", items |-> items]

\* the Python str that Parser.statement stores as a comment's only argument
Str(text) == [tid |-> "str", value |-> text]

\* Statement(name, args); head is the token the name was taken from
\* (cur in Parser.statement), kept to tell where a name came from
Statement(name, args, head) == [name |-> name, args |-> args, head |-> head]

IsToken(a) == a.tid \in {"comment", "lparen", "rparen", "string", "id", "varexp", "eof"}

(***************************************************************************)
(* Lexer.  code[loc + 1] is Python's code[loc].                            *)
(***************************************************************************)
CharAt(code, loc) == IF loc < Len(code) THEN code[loc + 1] ELSE "EOS"

\* code[a:b]
Slice(code, a, b) == [i \in 1..(b - a) |-> code[a + i]]

\* the end of the longest run of characters of class cls that starts at loc
RECURSIVE SpanEnd(_, _, _)
SpanEnd(code, loc, cls) ==
    IF loc < Len(code) /\ code[loc + 1] \in cls
    THEN SpanEnd(code, loc + 1, cls)
    ELSE loc

\* the end of the line that holds loc ('.' matches anything but a newline)
RECURSIVE LineEnd(_, _)
LineEnd(code, loc) ==
    IF loc < Len(code) /\ code[loc + 1] # "\n"
    THEN LineEnd(code, loc + 1)
    ELSE loc

\* the body and closing quote of "([^\\]|(\\.))*?" from loc on: the end of
\* the match, or -1.  The lazy star closes at the first quote that is not
\* the second character of an escape; an escape is a backslash and any
\* character but a newline.
RECURSIVE StringEnd(_, _)
StringEnd(code, loc) ==
    IF loc >= Len(code) THEN -1
    ELSE IF code[loc + 1] = "\"" THEN loc + 1
    ELSE IF code[loc + 1] = "\\"
         THEN IF loc + 1 < Len(code) /\ code[loc + 2] # "\n"
              THEN StringEnd(code, loc + 2)
              ELSE -1
    ELSE StringEnd(code, loc + 1)

\* the token_specification list, in its order
TokenSpecification ==
    <<"ignore", "string", "varexp", "id", "eol", "comment", "lparen", "rparen">>

\* reg.match(code, loc) for the pattern named tid: mo.end(), or -1
Match(tid, code, loc) ==
    CASE tid = "ignore" ->
           IF CharAt(code, loc) \in IgnoreChars THEN loc + 1 ELSE -1
      [] tid = "string" ->
           IF CharAt(code, loc) = "\"" THEN StringEnd(code, loc + 1) ELSE -1
      [] tid = "varexp" ->
           IF CharAt(code, loc) = "$" /\ CharAt(code, loc + 1) = "{"
           THEN LET e == SpanEnd(code, loc + 2, VarexpChars)
                IN  IF e > loc + 2 /\ CharAt(code, e) = "}" THEN e + 1 ELSE -1
           ELSE -1
      [] tid = "id" ->
           LET e == SpanEnd(code, loc, IdChars)
           IN  IF e > loc THEN e ELSE -1
      [] tid = "eol" ->
           IF CharAt(code, loc) = "\n" THEN loc + 1 ELSE -1
      [] tid = "comment" ->
           IF CharAt(code, loc) = "#" THEN LineEnd(code, loc + 1) ELSE -1
      [] tid = "lparen" ->
           IF CharAt(code, loc) = "(" THEN loc + 1 ELSE -1
      [] tid = "rparen" ->
           IF CharAt(code, loc) = ")" THEN loc + 1 ELSE -1

\* the Token a match of pattern tid yields: the quotes of a string and the
\* ${ } of a variable expansion are cut off
Yielded(tid, text) ==
    CASE tid = "comment" -> Token("comment", text)
      [] tid = "lparen"  -> Token("lparen", <<"(">>)
      [] tid = "rparen"  -> Token("rparen", <<")">>)
      [] tid = "string"  -> Token("string", Slice(text, 1, Len(text) - 1))
      [] tid = "id"      -> Token("id", text)
      [] tid = "varexp"  -> Token("varexp", Slice(text, 2, Len(text) - 1))

\* the state of the generator Lexer.lex before its first step
LexStart == [loc |-> 0, lineno |-> 1, line_start |-> 0, col |-> 0]

\* One next() of the generator Lexer.lex: the while loop from the lexer
\* state ls, the for loop from pattern k, up to the next yield, the end of
\* the code (StopIteration) or the RuntimeError.  After an 'ignore' match
\* the for loop goes on with the later patterns at the new loc.
RECURSIVE LexLoop(_, _, _, _)
LexLoop(code, ls, k, matched) ==
    IF k = 1 /\ ~(ls.loc < Len(code))
    THEN [kind |-> "stop", tok |-> Token("eof", <<>>), ls |-> ls]
    ELSE IF k > Len(TokenSpecification)
    THEN IF matched
         THEN LexLoop(code, ls, 1, FALSE)
         ELSE [kind |-> "error", tok |-> Token("eof", <<>>), ls |-> ls]
    ELSE LET tid == TokenSpecification[k]
             e   == Match(tid, code, ls.loc)
             at  == [ls EXCEPT !.col = ls.loc - ls.line_start, !.loc = e]
         IN  IF e = -1 THEN LexLoop(code, ls, k + 1, matched)
             ELSE IF tid = "ignore" THEN LexLoop(code, at, k + 1, TRUE)
             ELSE IF tid = "eol"
                  THEN LexLoop(code,
                               [at EXCEPT !.lineno = ls.lineno + 1, !.col = 1,
                                          !.line_start = e],
                               1, FALSE)
             ELSE [kind |-> "token",
                   tok  |-> Yielded(tid, Slice(code, ls.loc, e)),
                   ls   |-> at]

LexNext(code, ls) == LexLoop(code, ls, 1, FALSE)

\* list(Lexer().lex(code)): the tokens, and whether the lexer raised
RECURSIVE LexAll(_, _, _)
LexAll(code, ls, acc) ==
    LET r == LexNext(code, ls)
    IN  CASE r.kind = "stop"  -> [toks |-> acc, ok |-> TRUE]
          [] r.kind = "error" -> [toks |-> acc, ok |-> FALSE]
          [] r.kind = "token" -> LexAll(code, r.ls, Append(acc, r.tok))

(***************************************************************************)
(* Parser.  The generator self.stream is held as the tokens it yields      *)
(* (toks), whether it raises the lexer's RuntimeError after the last of    *)
(* them (failing), and how many it has yielded so far (pos); next() on it  *)
(* yields toks[pos + 1], raises, or stops.  The parser state ps also holds *)
(* self.current and the exception that is propagating, if any: err is      *)
(* "none", "lexer" (raised inside getsym) or "syntax" (expect's            *)
(* RuntimeError, with the expected and the found token kind).  Once err is *)
(* set every later operation leaves ps as it is.                           *)
(***************************************************************************)
\* Parser.getsym
GetSym(ps) ==
    IF ps.pos < Len(ps.toks)
    THEN [ps EXCEPT !.pos = ps.pos + 1, !.current = ps.toks[ps.pos + 1]]
    ELSE IF ps.failing THEN [ps EXCEPT !.err = "lexer"]
    ELSE [ps EXCEPT !.current = Token("eof", <<>>)]

\* self.stream = Lexer().lex(code)
Stream(lexed) ==
    [toks |-> lexed.toks, failing |-> ~lexed.ok, pos |-> 0,
     current |-> Token("eof", <<>>), err |-> "none",
     expected |-> "none", got |-> "none"]

\* Parser.__init__
ParserInit(code) == GetSym(Stream(LexAll(code, LexStart, <<>>)))

\* the tokens pulled from the lexer so far
Pulled(ps) == SubSeq(ps.toks, 1, ps.pos)

\* whether Parser.accept(s) accepts
Accepts(ps, s) == ps.err = "none" /\ ps.current.tid = s

\* Parser.accept: the parser state after it
Accept(ps, s) == IF Accepts(ps, s) THEN GetSym(ps) ELSE ps

\* Parser.expect: the parser state after it
Expect(ps, s) ==
    IF Accepts(ps, s) THEN GetSym(ps)
    ELSE IF ps.err # "none" THEN ps
    ELSE [ps EXCEPT !.err = "syntax", !.expected = s, !.got = ps.current.tid]

\* Parser.arguments: [args, ps]
RECURSIVE Arguments(_)

\* args.append(self.arguments()); self.expect('rparen')
ArgumentsClosed(inner) ==
    [args |-> <<Group(inner.args)>>, ps |-> Expect(inner.ps, "rparen")]

\* the first if of Parser.arguments: a nested group
ArgumentsGroup(ps) ==
    IF Accepts(ps, "lparen")
    THEN ArgumentsClosed(Arguments(GetSym(ps)))
    ELSE [args |-> <<>>, ps |-> ps]

\* args.append(arg); rest = self.arguments(); args += rest
ArgumentsJoined(args, rest) == [args |-> args \o rest.args, ps |-> rest.ps]

\* the second if of Parser.arguments: a string, varexp or id, and the rest
ArgumentsToken(grp) ==
    IF Accepts(grp.ps, "string") \/ Accepts(grp.ps, "varexp") \/ Accepts(grp.ps, "id")
    THEN ArgumentsJoined(Append(grp.args, grp.ps.current), Arguments(GetSym(grp.ps)))
    ELSE grp

Arguments(ps) == ArgumentsToken(ArgumentsGroup(ps))

\* the end of Parser.statement: self.expect('rparen'); return Statement(...)
StatementClosed(cur, a) ==
    [stmt |-> Statement(cur.value, a.args, cur), ps |-> Expect(a.ps, "rparen")]

\* Parser.statement: [stmt, ps]; stmt counts only when ps.err = "none"
ParseStatement(ps) ==
    IF Accepts(ps, "comment")
    THEN [stmt |-> Statement(<<"_">>, <<Str(ps.current.value)>>, ps.current),
          ps   |-> GetSym(ps)]
    ELSE StatementClosed(ps.current,
                         Arguments(Expect(Accept(ps, "id"), "lparen")))

\* what next() on the generator Parser.parse gives for the result r of
\* statement(): "yield" with the statement, "error" when it raised
ParseYield(r) ==
    [kind |-> IF r.ps.err = "none" THEN "yield" ELSE "error",
     stmt |-> r.stmt, ps |-> r.ps]

\* what next() gives when accept('eof') accepted, p being the state after
ParseStop(p) ==
    [kind |-> IF p.err = "none" THEN "stop" ELSE "error",
     stmt |-> Statement(<<>>, <<>>, Token("eof", <<>>)), ps |-> p]

\* One next() of the generator Parser.parse
ParseNext(ps) ==
    IF Accepts(ps, "eof") THEN ParseStop(GetSym(ps)) ELSE ParseYield(ParseStatement(ps))

\* list(Parser(code).parse()) from the state ps on: the statements, and
\* how the parse ended
RECURSIVE ParseRest(_, _)

ParseStep(r, acc) ==
    IF r.kind = "yield" THEN ParseRest(r.ps, Append(acc, r.stmt))
    ELSE [stmts |-> acc, ok |-> r.kind = "stop", ps |-> r.ps]

ParseRest(ps, acc) == ParseStep(ParseNext(ps), acc)

ParseFrom(p) ==
    IF p.err # "none" THEN [stmts |-> <<>>, ok |-> FALSE, ps |-> p]
    ELSE ParseRest(p, <<>>)

ParseAll(code) == ParseFrom(ParserInit(code))

(***************************************************************************)
(* Converter: the names write_entry knows, and its formatting.             *)
(***************************************************************************)
CmakeMinimumRequired ==
    <<"c", "m", "a", "k", "e", "_", "m", "i", "n", "i", "m", "u", "m", "_",
      "r", "e", "q", "u", "i", "r", "e", "d">>

EnableTesting == <<"e", "n", "a", "b", "l", "e", "_", "t", "e", "s", "t", "i", "n", "g">>

Include == <<"i", "n", "c", "l", "u", "d", "e">>

\* Converter.ignored_funcs
ignored_funcs == {CmakeMinimumRequired, EnableTesting, Include}

CommentName == <<"_">>

AddSubdirectory ==
    <<"a", "d", "d", "_", "s", "u", "b", "d", "i", "r", "e", "c", "t", "o", "r", "y">>

PkgSearchModule ==
    <<"p", "k", "g", "_", "s", "e", "a", "r", "c", "h", "_", "m", "o", "d", "u", "l", "e">>

PkgSearchModules == PkgSearchModule \o <<"s">>

FindPackage == <<"f", "i", "n", "d", "_", "p", "a", "c", "k", "a", "g", "e">>

Project == <<"p", "r", "o", "j", "e", "c", "t">>

Set == <<"s", "e", "t">>

\* self.indent_unit and self.indent_level
IndentUnit == <<" ", " ">>

IndentLevel == 0

\* n * s
RECURSIVE Repeat(_, _)
Repeat(s, n) == IF n <= 0 THEN <<>> ELSE s \o Repeat(s, n - 1)

\* sep.join(parts)
RECURSIVE JoinFrom(_, _, _)
JoinFrom(parts, sep, k) ==
    IF k > Len(parts) THEN <<>>
    ELSE IF k = Len(parts) THEN parts[k]
    ELSE parts[k] \o sep \o JoinFrom(parts, sep, k + 1)

Join(parts, sep) == JoinFrom(parts, sep, 1)

\* "'%s'" % s
Quoted(s) == <<"'">> \o s \o <<"'">>

\* a result that carries either a value or the exception raised
Ok(v) == [exc |-> "none", val |-> v]

Raise(kind) == [exc |-> kind, val |-> <<>>]

\* t.args[k - 1].value: IndexError past the end of the list, AttributeError
\* on a nested list (or a str), which has no attribute 'value'
ArgValue(args, k) ==
    IF k > Len(args) THEN Raise("IndexError")
    ELSE IF ~IsToken(args[k]) THEN Raise("AttributeError")
    ELSE Ok(args[k].value)

\* [f(i.value) for i in args[k - 1:]], where f is one of "dep" (the
\* dependency('%s') of pkg_search_module), "lower" (project: lower(), and
\* cxx becomes cpp)
RECURSIVE MapValues(_, _, _, _)
MapValues(args, k, f, acc) ==
    IF k > Len(args) THEN Ok(acc)
    ELSE LET v == ArgValue(args, k)
         IN  IF v.exc # "none" THEN Raise(v.exc)
             ELSE LET l == Lower(v.val)
                      e == CASE f = "dep" ->
                                  <<"d", "e", "p", "e", "n", "d", "e", "n", "c", "y", "(", "'">>
                                  \o v.val \o <<"'", ")">>
                             [] f = "lower" ->
                                  IF l = <<"c", "x", "x">> THEN <<"c", "p", "p">> ELSE l
                  IN  MapValues(args, k + 1, f, Append(acc, e))

\* the loop of Converter.convert_args: res, or the exception
RECURSIVE ConvertArgsLoop(_, _, _)
ConvertArgsLoop(args, k, res) ==
    IF k > Len(args) THEN Ok(res)
    ELSE LET i == args[k]
         IN  IF ~IsToken(i) THEN Raise("AttributeError")
             ELSE IF i.tid = "id" THEN ConvertArgsLoop(args, k + 1, Append(res, Quoted(i.value)))
             ELSE IF i.tid = "varexp" THEN ConvertArgsLoop(args, k + 1, Append(res, i.value))
             ELSE IF i.tid = "string" THEN ConvertArgsLoop(args, k + 1, Append(res, Quoted(i.value)))
             ELSE Raise("RuntimeError")

\* ConvertArgsResult with the test len(res) > 1 turned into len(res) >= 1
ConvertArgsResultAlwaysList(res) ==
    IF Len(res) >= 1 THEN <<"[">> \o Join(res, <<",", " ">>) \o <<"]">>
    ELSE <<>>

\* the end of Converter.convert_args: what is returned for res
ConvertArgsResult(res) ==
    IF Len(res) > 1 THEN <<"[">> \o Join(res, <<",", " ">>) \o <<"]">>
    ELSE IF Len(res) = 1 THEN res[1]
    ELSE <<>>

\* Converter.convert_args
ConvertArgs(args) ==
    LET r == ConvertArgsLoop(args, 1, <<>>)
    IN  IF r.exc # "none" THEN r ELSE Ok(ConvertArgsResult(r.val))

\* the line of the add_subdirectory branch
SubdirLine(t) ==
    LET d == ArgValue(t.args, 1)
    IN  IF d.exc # "none" THEN d
        ELSE Ok(<<"s", "u", "b", "d", "i", "r", "(", "'">> \o d.val \o <<"'", ")">>)

\* the line of the pkg_search_module / pkg_search_modules branch
PkgLine(t) ==
    LET varname == ArgValue(t.args, 1)
        mods    == MapValues(t.args, 2, "dep", <<>>)
    IN  IF varname.exc # "none" THEN varname
        ELSE IF mods.exc # "none" THEN mods
        ELSE IF Len(mods.val) = 1
             THEN Ok(Lower(varname.val) \o <<" ", "=", " ">> \o mods.val[1])
             ELSE Ok(Lower(varname.val) \o <<" ", "=", " ", "[">>
                     \o Join([k \in 1..Len(mods.val) |-> Quoted(mods.val[k])], <<",", " ">>)
                     \o <<"]">>)

\* the line of the find_package branch
FindPackageLine(t) ==
    LET v == ArgValue(t.args, 1)
    IN  IF v.exc # "none" THEN v
        ELSE Ok(v.val \o <<"_", "d", "e", "p", " ", "=", " ",
                           "d", "e", "p", "e", "n", "d", "e", "n", "c", "y", "(">>
                \o v.val \o <<")">>)

\* the line of the project branch
ProjectLine(t) ==
    LET pname == ArgValue(t.args, 1)
        rest  == MapValues(t.args, 2, "lower", <<>>)
    IN  IF pname.exc # "none" THEN pname
        ELSE IF rest.exc # "none" THEN rest
        ELSE LET args == <<pname.val>> \o rest.val
             IN  Ok(<<"p", "r", "o", "j", "e", "c", "t", "(">>
                    \o Join([k \in 1..Len(args) |-> Quoted(args[k])], <<",", " ">>)
                    \o <<")">>)

\* the line of the set branch
SetLine(t) ==
    LET varname == ArgValue(t.args, 1)
        vals    == ConvertArgs(SubSeq(t.args, 2, Len(t.args)))
    IN  IF varname.exc # "none" THEN varname
        ELSE IF vals.exc # "none" THEN vals
        ELSE Ok(Lower(varname.val) \o <<" ", "=", " ">> \o vals.val \o <<"\n">>)

\* OtherLine formatting the arguments too, as the set branch does
OtherLineWithArgs(t) ==
    IF ConvertArgs(t.args).exc # "none" THEN ConvertArgs(t.args)
    ELSE Ok(<<"#", " ">> \o t.name \o ConvertArgs(t.args).val)

\* the line of the last branch, for a command write_entry does not know
OtherLine(t) == Ok(<<"#", " ">> \o t.name)

\* Converter.write_entry(outfile, t): [exc, text, where], text being what
\* is written to outfile before it returns or raises
WriteEntryResult(t) ==
    IF t.name \in ignored_funcs THEN [exc |-> "none", text |-> <<>>, where |-> "none"]
    ELSE
    LET indent == Repeat(IndentUnit, IndentLevel)
        line ==
          CASE t.name = CommentName ->
                 IF Len(t.args) = 0 THEN Raise("IndexError") ELSE Ok(t.args[1])
            [] t.name = AddSubdirectory -> SubdirLine(t)
            [] t.name \in {PkgSearchModule, PkgSearchModules} -> PkgLine(t)
            [] t.name = FindPackage -> FindPackageLine(t)
            [] t.name = Project -> ProjectLine(t)
            [] t.name = Set -> SetLine(t)
            [] OTHER -> OtherLine(t)
    IN  IF line.exc # "none"
        THEN [exc |-> line.exc, text |-> <<>>,
              where |-> IF t.name = Set /\ ArgValue(t.args, 1).exc = "none"
                        THEN "convert_args" ELSE "write_entry"]
        ELSE IF t.name = CommentName
        THEN \* line is t.args[0] itself: outfile.write takes only a str
             IF line.val.tid = "str"
             THEN [exc |-> "none", where |-> "none",
                   text |-> indent \o line.val.value
                            \o (IF line.val.value # <<>>
                                   /\ line.val.value[Len(line.val.value)] = "\n"
                                THEN <<>> ELSE <<"\n">>)]
             ELSE [exc |-> "TypeError", text |-> indent, where |-> "write_entry"]
        ELSE [exc |-> "none", where |-> "none",
              text |-> indent \o line.val
                       \o (IF line.val # <<>> /\ line.val[Len(line.val)] = "\n"
                           THEN <<>> ELSE <<"\n">>)]

(***************************************************************************)
(* The inputs the model runs on.                                           *)
(***************************************************************************)
\* sys.argv[1]; a directory is the sequence of the names joined into it
CmakeRoot == << <<".">> >>

\* os.path.join(subdir, name)
PathJoin(subdir, name) == Append(subdir, name)

AddSubdirA == AddSubdirectory \o <<"(", "a", ")">>

AddSubdirB == AddSubdirectory \o <<"(", "b", ")">>

SetSources ==
    <<"s", "e", "t", "(", "S", "O", "U", "R", "C", "E", "S", " ", "\"", "a", ".", "c",
      "\"", " ", "\"", "b", ".", "c", "\"", ")">>

SetX == <<"s", "e", "t", "(", "X", ")">>

FooEmpty == <<"f", "o", "o", "(", ")">>

FooOpen == <<"f", "o", "o", "(">>

OptionUseX ==
    <<"o", "p", "t", "i", "o", "n", "(", "U", "S", "E", "_", "X", " ", "\"", "d", "e",
      "s", "c", "\"", " ", "O", "N", ")">>

HashHi == <<"#", " ", "h", "i">>

\* the statements an input file is made of, one per line
Snippets ==
    { HashHi,
      EnableTesting \o <<"(", ")">>,
      AddSubdirA,
      AddSubdirB,
      SetSources,
      SetX,
      <<"s", "e", "t", "(", "X", " ", "$", "{", "Y", "}", ")">>,
      <<"s", "e", "t", "(", ")">>,
      <<"s", "e", "t", "(", "X", " ", "(", "a", ")", ")">>,
      <<"s", "e", "t", "(", "X", " ", "\"", "a", "\n", "b", "\"", ")">>,
      PkgSearchModule \o <<"(", "B", " ", "m", "1", ")">>,
      PkgSearchModules \o <<"(", "B", " ", "m", "1", " ", "m", "2", ")">>,
      OptionUseX,
      <<"f", "o", "o", "(", "(", "a", ")", " ", "b", ")">>,
      FooEmpty,
      FindPackage \o <<"(", "T", "h", "r", "e", "a", "d", "s", ")">>,
      Project \o <<"(", "F", "o", "o", " ", "C", "X", "X", ")">>,
      FooOpen,
      <<"!">> }

\* the text of the file whose lines are prog[k], prog[k + 1], ...
RECURSIVE FileText(_, _)
FileText(prog, k) ==
    IF k > Len(prog) THEN <<>>
    ELSE prog[k] \o <<"\n">> \o FileText(prog, k + 1)

File(prog) == [exists |-> TRUE, prog |-> prog, code |-> FileText(prog, 1)]

NoFile == [exists |-> FALSE, prog |-> <<>>, code |-> <<>>]

\* the input files of the root directory: up to MaxStmts statements
RootFiles == {NoFile} \cup {File(p) : p \in UNION {[1..k -> Snippets] : k \in 0..MaxStmts}}

\* the input files of the directories a, b and a/b
FilesA == {NoFile, File(<<SetX>>), File(<<AddSubdirB, FooEmpty>>), File(<<FooOpen>>)}

FilesB == {NoFile, File(<<HashHi>>)}

FilesAB == {NoFile, File(<<OptionUseX>>)}

Mentions(f, snippet) == \E k \in 1..Len(f.prog) : f.prog[k] = snippet

\* the token kinds a parser input is drawn from, and the text of each
\* (a comment runs to the end of its line)
TokenKinds == {"id", "string", "varexp", "lparen", "rparen", "comment"}

KindText(kind) ==
    CASE kind = "id"      -> <<"a", " ">>
      [] kind = "string"  -> <<"\"", "s", "\"", " ">>
      [] kind = "varexp"  -> <<"$", "{", "v", "}", " ">>
      [] kind = "lparen"  -> <<"(", " ">>
      [] kind = "rparen"  -> <<")", " ">>
      [] kind = "comment" -> <<"#", "c", "\n">>

RECURSIVE KindsText(_, _)
KindsText(kinds, k) ==
    IF k > Len(kinds) THEN <<>>
    ELSE KindText(kinds[k]) \o KindsText(kinds, k + 1)

\* the parser inputs: every token sequence of up to MaxToks tokens, and
\* every command a ( ... ) with up to MaxArgToks tokens between its parentheses
ParserInputs ==
    UNION {[1..k -> TokenKinds] : k \in 0..MaxToks}
    \cup {<<"id", "lparen">> \o x \o <<"rparen">> :
            x \in UNION {[1..k -> TokenKinds] : k \in 0..MaxArgToks}}

(***************************************************************************)
(* The state.                                                              *)
(*   fs        the input files: directory -> [exists, code]                *)
(*   out       the output files created so far: directory -> text written  *)
(*   stack     the active calls of Converter.convert, the innermost last:  *)
(*             the directory, its code, the parser, the statement at hand  *)
(*             (t), its number in the file (n), and where the call is in   *)
(*             the for loop (pc)                                           *)
(*   status    "start", "running", "done" (convert() returned to __main__) *)
(*             or "error" (an exception reached the process boundary)      *)
(*   exc       the exception raised, if any                                *)
(*   warnings  the directories warned about, in order                      *)
(*   log       what was done, in order (calls, returns, write_entry calls) *)
(*   pin, pcode, pps, pstmts, pstate                                       *)
(*             a Parser run on its own: the token kinds and the text it is *)
(*             given, its state, the statements yielded, how it ended      *)
(***************************************************************************)
VARIABLES fs, out, stack, status, exc, warnings, log,
          pin, pcode, pps, pstmts, pstate

convVars == <<fs, out, stack, status, exc, warnings, log>>

parserVars == <<pin, pcode, pps, pstmts, pstate>>

vars == <<fs, out, stack, status, exc, warnings, log,
          pin, pcode, pps, pstmts, pstate>>

NoStmt == Statement(<<>>, <<>>, Token("eof", <<>>))

NoExc == [kind |-> "none", where |-> "none", expected |-> "none", got |-> "none"]

\* an entry of log: what was done (ev), by the call of convert for which
\* directory (dir), how many calls of convert were active below that call
\* (depth), and for "entry" and "raise" the statement at hand (stmt), its
\* number in its file (n) and the text written for it (text)
Event(ev, dir, depth, n, stmt, text) ==
    [ev |-> ev, dir |-> dir, depth |-> depth, n |-> n, stmt |-> stmt, text |-> text]

\* ReadFile with a missing file read as an empty one
ReadFileMissingAsEmpty(subdir) ==
    IF subdir \in DOMAIN fs /\ fs[subdir].exists THEN fs[subdir]
    ELSE [exists |-> TRUE, prog |-> <<>>, code |-> <<>>]

\* open(cfile).read(), cfile being subdir's CMakeLists.txt: exists is FALSE
\* for the FileNotFoundError
ReadFile(subdir) == IF subdir \in DOMAIN fs THEN fs[subdir] ELSE NoFile

\* open(os.path.join(subdir, 'meson.build'), 'w'): created, or cut to nothing
OpenOutfile(files, subdir) ==
    [d \in DOMAIN files \cup {subdir} |-> IF d = subdir THEN <<>> ELSE files[d]]

\* Converter.convert(sub) up to its for loop, called with the calls stk
\* active and lg logged: the values of the variables after it
ConvertCall(sub, stk, lg) ==
    LET subdir == IF sub = <<>> THEN CmakeRoot ELSE sub
        f      == ReadFile(subdir)
        called == Append(lg, Event("call", subdir, Len(stk), 0, NoStmt, <<>>))
    IN  IF ~f.exists
        THEN [stack |-> stk, out |-> out, exc |-> exc,
              warnings |-> Append(warnings, subdir),
              status |-> IF stk = <<>> THEN "done" ELSE "running",
              log |-> called \o <<Event("warn", subdir, Len(stk), 0, NoStmt, <<>>),
                                  Event("return", subdir, Len(stk), 0, NoStmt, <<>>)>>]
        ELSE LET p == ParserInit(f.code)
             IN  IF p.err # "none"
                 THEN [stack |-> stk, out |-> out, warnings |-> warnings,
                       exc |-> [kind |-> p.err, where |-> "Parser.__init__",
                                expected |-> p.expected, got |-> p.got],
                       status |-> "error",
                       log |-> Append(called, Event("raise", subdir, Len(stk), 0, NoStmt, <<>>))]
                 ELSE [stack |-> Append(stk, [subdir |-> subdir, code |-> f.code, ps |-> p,
                                              t |-> NoStmt, n |-> 0, pc |-> "loop"]),
                       out |-> OpenOutfile(out, subdir), warnings |-> warnings,
                       exc |-> exc, status |-> "running",
                       log |-> Append(called, Event("open", subdir, Len(stk), 0, NoStmt, <<>>))]

Top == stack[Len(stack)]

SetTop(f) == [stack EXCEPT ![Len(stack)] = f]

\* AfterYield with write_entry called before the recursion is made
AfterYieldWriteFirst(t) == "write"

\* the body of convert's for loop for the statement t: recurse first
\* for add_subdirectory, then write_entry
AfterYield(t) == IF t.name = AddSubdirectory THEN "recurse" ELSE "write"

Init ==
    /\ \E r \in RootFiles, a \in FilesA, b \in FilesB, ab \in FilesAB :
         /\ a.exists => Mentions(r, AddSubdirA)
         /\ b.exists => Mentions(r, AddSubdirB)
         /\ ab.exists => Mentions(a, AddSubdirB)
         /\ fs = [d \in {CmakeRoot, PathJoin(CmakeRoot, <<"a">>),
                         PathJoin(CmakeRoot, <<"b">>),
                         PathJoin(PathJoin(CmakeRoot, <<"a">>), <<"b">>)} |->
                    IF d = CmakeRoot THEN r
                    ELSE IF d = PathJoin(CmakeRoot, <<"a">>) THEN a
                    ELSE IF d = PathJoin(CmakeRoot, <<"b">>) THEN b
                    ELSE ab]
    /\ out = <<>>
    /\ stack = <<>>
    /\ status = "start"
    /\ exc = NoExc
    /\ warnings = <<>>
    /\ log = <<>>
    /\ pin = <<>>
    /\ pcode = <<>>
    /\ pps = ParserInit(<<>>)
    /\ pstmts = <<>>
    /\ pstate = "idle"

\* __main__: c = Converter(sys.argv[1]); c.convert()
Main ==
    /\ status = "start"
    /\ LET r == ConvertCall(<<>>, <<>>, log)
       IN  /\ stack' = r.stack
           /\ out' = r.out
           /\ warnings' = r.warnings
           /\ exc' = r.exc
           /\ status' = r.status
           /\ log' = r.log
    /\ UNCHANGED <<fs, pin, pcode, pps, pstmts, pstate>>

\* for t in p.parse(): the next statement, or the exception of the parser
NextStatement ==
    /\ status = "running"
    /\ stack # <<>>
    /\ Top.pc = "loop"
    /\ LET r == ParseNext(Top.ps)
       IN  /\ r.kind # "stop"
           /\ IF r.kind = "yield"
              THEN /\ stack' = SetTop([Top EXCEPT !.ps = r.ps, !.t = r.stmt,
                                                  !.n = Top.n + 1,
                                                  !.pc = AfterYield(r.stmt)])
                   /\ UNCHANGED <<status, exc, log>>
              ELSE /\ status' = "error"
                   /\ exc' = [kind |-> r.ps.err, where |-> "parse",
                              expected |-> r.ps.expected, got |-> r.ps.got]
                   /\ stack' = SetTop([Top EXCEPT !.ps = r.ps])
                   /\ log' = Append(log, Event("raise", Top.subdir, Len(stack) - 1,
                                               Top.n + 1, NoStmt, <<>>))
    /\ UNCHANGED <<fs, out, warnings, pin, pcode, pps, pstmts, pstate>>

\* the end of the for loop: convert returns to its caller
Return ==
    /\ status = "running"
    /\ stack # <<>>
    /\ Top.pc = "loop"
    /\ ParseNext(Top.ps).kind = "stop"
    /\ stack' = SubSeq(stack, 1, Len(stack) - 1)
    /\ status' = IF Len(stack) = 1 THEN "done" ELSE "running"
    /\ log' = Append(log, Event("return", Top.subdir, Len(stack) - 1, 0, NoStmt, <<>>))
    /\ UNCHANGED <<fs, out, exc, warnings, pin, pcode, pps, pstmts, pstate>>

\* self.convert(os.path.join(subdir, t.args[0].value))
Recurse ==
    /\ status = "running"
    /\ stack # <<>>
    /\ Top.pc = "recurse"
    /\ LET d == ArgValue(Top.t.args, 1)
           r == ConvertCall(PathJoin(Top.subdir, d.val),
                            SetTop([Top EXCEPT !.pc = "write"]), log)
       IN  IF d.exc # "none"
           THEN /\ status' = "error"
                /\ exc' = [NoExc EXCEPT !.kind = d.exc, !.where = "convert"]
                /\ log' = Append(log, Event("raise", Top.subdir, Len(stack) - 1,
                                            Top.n, Top.t, <<>>))
                /\ UNCHANGED <<stack, out, warnings>>
           ELSE /\ stack' = r.stack
                /\ out' = r.out
                /\ warnings' = r.warnings
                /\ exc' = r.exc
                /\ status' = r.status
                /\ log' = r.log
    /\ UNCHANGED <<fs, pin, pcode, pps, pstmts, pstate>>

\* self.write_entry(outfile, t)
WriteEntry ==
    /\ status = "running"
    /\ stack # <<>>
    /\ Top.pc = "write"
    /\ LET w == WriteEntryResult(Top.t)
       IN  /\ out' = [out EXCEPT ![Top.subdir] = @ \o w.text]
           /\ IF w.exc = "none"
              THEN /\ stack' = SetTop([Top EXCEPT !.pc = "loop"])
                   /\ log' = Append(log, Event("entry", Top.subdir, Len(stack) - 1,
                                               Top.n, Top.t, w.text))
                   /\ UNCHANGED <<status, exc>>
              ELSE /\ status' = "error"
                   /\ exc' = [NoExc EXCEPT !.kind = w.exc, !.where = w.where]
                   /\ log' = Append(log, Event("raise", Top.subdir, Len(stack) - 1,
                                               Top.n, Top.t, w.text))
                   /\ UNCHANGED stack
    /\ UNCHANGED <<fs, warnings, pin, pcode, pps, pstmts, pstate>>

Next == Main \/ NextStatement \/ Return \/ Recurse \/ WriteEntry

Spec == Init /\ [][Next]_vars

(***************************************************************************)
(* A Parser run on its own: p = Parser(code), then next() on p.parse()     *)
(* until it stops or raises.                                               *)
(***************************************************************************)
InitParser ==
    /\ pin \in ParserInputs
    /\ pcode = KindsText(pin, 1)
    /\ pps = ParserInit(pcode)
    /\ pstmts = <<>>
    /\ pstate = "start"
    /\ fs = <<>>
    /\ out = <<>>
    /\ stack = <<>>
    /\ status = "idle"
    /\ exc = NoExc
    /\ warnings = <<>>
    /\ log = <<>>

\* Parser.__init__ raised (the lexer, in the first getsym), or did not
ParserStart ==
    /\ pstate = "start"
    /\ pstate' = IF pps.err = "none" THEN "parsing" ELSE "error"
    /\ UNCHANGED <<pin, pcode, pps, pstmts>>
    /\ UNCHANGED convVars

ParserYield ==
    /\ pstate = "parsing"
    /\ LET r == ParseNext(pps)
       IN  /\ r.kind = "yield"
           /\ pps' = r.ps
           /\ pstmts' = Append(pstmts, r.stmt)
    /\ UNCHANGED <<pin, pcode, pstate>>
    /\ UNCHANGED convVars

ParserStop ==
    /\ pstate = "parsing"
    /\ LET r == ParseNext(pps)
       IN  /\ r.kind = "stop"
           /\ pps' = r.ps
           /\ pstate' = "done"
    /\ UNCHANGED <<pin, pcode, pstmts>>
    /\ UNCHANGED convVars

ParserRaise ==
    /\ pstate = "parsing"
    /\ LET r == ParseNext(pps)
       IN  /\ r.kind = "error"
           /\ pps' = r.ps
           /\ pstate' = "error"
    /\ UNCHANGED <<pin, pcode, pstmts>>
    /\ UNCHANGED convVars

NextParser == ParserStart \/ ParserYield \/ ParserStop \/ ParserRaise

SpecParser == InitParser /\ [][NextParser]_vars

(***************************************************************************)
(* Properties.                                                             *)
(***************************************************************************)
\* the number of line terminators in text
NumLines(text) == Cardinality({k \in 1..Len(text) : text[k] = "\n"})

\* the statements of stmts that are not on the ignore list
Kept(stmts) == SelectSeq(stmts, LAMBDA st : st.name \notin ignored_funcs)

\* the text write_entry writes for stmts[k], stmts[k + 1], ...
RECURSIVE Entries(_, _)
Entries(stmts, k) ==
    IF k > Len(stmts) THEN <<>>
    ELSE WriteEntryResult(stmts[k]).text \o Entries(stmts, k + 1)

\* the log entries of calls of write_entry, returned from or raised in
IsEntry(e) == e.ev \in {"entry", "raise"} /\ e.stmt # NoStmt

LeafKinds == {"string", "varexp", "id"}

AllLeaves(args) == \A k \in 1..Len(args) : args[k].tid \in LeafKinds

PathA == PathJoin(CmakeRoot, <<"a">>)

PathB == PathJoin(CmakeRoot, <<"b">>)

PathAB == PathJoin(PathA, <<"b">>)

\* C1: when convert has run to its end (or was stopped by something else
\* than a lexical or syntax error), the output file of every directory
\* whose input file lexes and parses without error holds exactly one line
\* per statement that is not ignored, and the lines are those of the
\* statements, in their order.
C1_OneLinePerStatement ==
    (status = "done" \/ (status = "error" /\ exc.kind \notin {"lexer", "syntax"})) =>
        \A d \in DOMAIN out :
            ParseAll(fs[d].code).ok =>
                /\ NumLines(out[d]) = Len(Kept(ParseAll(fs[d].code).stmts))
                /\ out[d] = Entries(ParseAll(fs[d].code).stmts, 1)

\* C2: whenever write_entry is called for add_subdirectory(D) (the line
\* subdir('D') is appended), the call of convert for D was made and has
\* returned just before, every call made in between has returned in
\* between, and write_entry was called for every earlier statement of the
\* current directory before the call of convert for D was made.
C2_RecursionBeforeSubdirLine ==
    \A i \in 1..Len(log) :
        (log[i].ev = "entry" /\ log[i].stmt.name = AddSubdirectory) =>
            \E a \in 1..(i - 1) :
                /\ log[a].ev = "call"
                /\ log[a].dir = PathJoin(log[i].dir, log[i].stmt.args[1].value)
                /\ log[a].depth = log[i].depth + 1
                /\ log[i - 1].ev = "return"
                /\ log[i - 1].dir = log[a].dir
                /\ log[i - 1].depth = log[a].depth
                /\ \A j \in (a + 1)..(i - 2) :
                       /\ log[j].depth >= log[a].depth
                       /\ log[j].ev = "call" =>
                              \E r \in (j + 1)..(i - 2) :
                                  /\ log[r].ev = "return"
                                  /\ log[r].dir = log[j].dir
                                  /\ log[r].depth = log[j].depth
                /\ \A k \in 1..(log[i].n - 1) :
                       \E j \in 1..(a - 1) :
                           /\ log[j].ev = "entry"
                           /\ log[j].dir = log[i].dir
                           /\ log[j].depth = log[i].depth
                           /\ log[j].n = k

\* a run in which the root directory wrote a line, then recursed into a,
\* which recursed into a/b, and then appended subdir('a')
C2_Witness ==
    \E i \in 1..Len(log) :
        /\ log[i].ev = "entry"
        /\ log[i].dir = CmakeRoot
        /\ log[i].stmt.name = AddSubdirectory
        /\ log[i].n = 2
        /\ \E j \in 1..(i - 1) : log[j].ev = "entry" /\ log[j].dir = PathAB

Translated ==
    {AddSubdirectory, PkgSearchModule, PkgSearchModules, FindPackage, Project, Set}

Unrecognized(name) ==
    name # CommentName /\ name \notin ignored_funcs /\ name \notin Translated

\* C3: every call of write_entry for a statement whose name is neither the
\* comment name, nor ignored, nor one of the translated commands returns
\* (it does not raise) and writes exactly the line '# <name>'.
C3_UnrecognizedIsComment ==
    \A i \in 1..Len(log) :
        (IsEntry(log[i]) /\ Unrecognized(log[i].stmt.name)) =>
            /\ log[i].ev = "entry"
            /\ log[i].text = <<"#", " ">> \o log[i].stmt.name \o <<"\n">>

\* an unrecognized command with a nested group among its arguments was
\* written, and so was one with no arguments
C3_Witness ==
    /\ \E i \in 1..Len(log) :
           /\ log[i].ev = "entry"
           /\ Unrecognized(log[i].stmt.name)
           /\ \E k \in 1..Len(log[i].stmt.args) : log[i].stmt.args[k].tid = "list"
    /\ \E i \in 1..Len(log) :
           /\ log[i].ev = "entry"
           /\ Unrecognized(log[i].stmt.name)
           /\ log[i].stmt.args = <<>>

\* how the claim renders one value of set, and the values of set
C4_Value(a) == IF a.tid = "varexp" THEN a.value ELSE <<"'">> \o a.value \o <<"'">>

C4_Values(vs) ==
    IF Len(vs) = 0 THEN <<>>
    ELSE IF Len(vs) = 1 THEN C4_Value(vs[1])
    ELSE <<"[">> \o Join([k \in 1..Len(vs) |-> C4_Value(vs[k])], <<",", " ">>) \o <<"]">>

\* C4: a call of convert whose code is the line set(SOURCES "a.c" "b.c")
\* has, once the lexer is exhausted, pulled the tokens Identifier(set)
\* LParen Identifier(SOURCES) String(a.c) String(b.c) RParen; and every
\* call of write_entry for set(V v1 ... vn) with String, Identifier or
\* VariableExpansion arguments writes lower(V), ' = ', and nothing (n = 0),
\* the rendered value (n = 1) or the bracketed, comma-joined rendered
\* values (n > 1).
C4_SetRendering ==
    /\ \A k \in 1..Len(stack) :
           (stack[k].code = SetSources \o <<"\n">> /\ stack[k].ps.current.tid = "eof") =>
               Pulled(stack[k].ps) =
                   << Token("id", <<"s", "e", "t">>),
                      Token("lparen", <<"(">>),
                      Token("id", <<"S", "O", "U", "R", "C", "E", "S">>),
                      Token("string", <<"a", ".", "c">>),
                      Token("string", <<"b", ".", "c">>),
                      Token("rparen", <<")">>) >>
    /\ \A i \in 1..Len(log) :
           (/\ IsEntry(log[i])
            /\ log[i].stmt.name = Set
            /\ Len(log[i].stmt.args) >= 1
            /\ AllLeaves(log[i].stmt.args)) =>
               /\ log[i].ev = "entry"
               /\ log[i].text = Lower(log[i].stmt.args[1].value) \o <<" ", "=", " ">>
                                \o C4_Values(Tail(log[i].stmt.args)) \o <<"\n">>

\* the example was lexed and converted: sources = ['a.c', 'b.c']
C4_Witness ==
    /\ \E k \in 1..Len(stack) :
           stack[k].code = SetSources \o <<"\n">> /\ stack[k].ps.current.tid = "eof"
    /\ \E i \in 1..Len(log) :
           /\ log[i].ev = "entry"
           /\ log[i].text = <<"s", "o", "u", "r", "c", "e", "s", " ", "=", " ", "[",
                              "'", "a", ".", "c", "'", ",", " ",
                              "'", "b", ".", "c", "'", "]", "\n">>

\* dependency('m')
C5_Dependency(a) ==
    <<"d", "e", "p", "e", "n", "d", "e", "n", "c", "y", "(", "'">> \o a.value \o <<"'", ")">>

\* C5: every call of write_entry for pkg_search_module(B m1 ... mn) or
\* pkg_search_modules(B m1 ... mn) writes b = dependency('m1') when n = 1
\* and b = [dependency('m1'), dependency('m2'), ...] when n > 1.
C5_ModuleSearch ==
    \A i \in 1..Len(log) :
        (/\ IsEntry(log[i])
         /\ log[i].stmt.name \in {PkgSearchModule, PkgSearchModules}
         /\ Len(log[i].stmt.args) >= 2
         /\ AllLeaves(log[i].stmt.args)) =>
            /\ log[i].ev = "entry"
            /\ log[i].text =
                   Lower(log[i].stmt.args[1].value) \o <<" ", "=", " ">>
                   \o (IF Len(log[i].stmt.args) = 2
                       THEN C5_Dependency(log[i].stmt.args[2])
                       ELSE <<"[">>
                            \o Join([k \in 1..(Len(log[i].stmt.args) - 1) |->
                                        C5_Dependency(log[i].stmt.args[k + 1])],
                                    <<",", " ">>)
                            \o <<"]">>)
                   \o <<"\n">>

\* whether directory d has an input file
HasInput(d) == d \in DOMAIN fs /\ fs[d].exists

\* whether path p is below d
Below(p, d) == Len(p) > Len(d) /\ SubSeq(p, 1, Len(d)) = d

\* C6: a call of convert, made for an add_subdirectory statement, for a
\* directory D that has no input file: warns about D and returns at once,
\* never creates an output file for D, is followed by no call for a
\* directory below D, raises nothing, and is followed by the line
\* subdir('D') of the referencing directory; and when the run is done,
\* every output file holds the lines of all statements of its input file,
\* whatever input files the directories they refer to have.
C6_MissingSubdirectory ==
    /\ \A i \in 1..Len(log) :
           (log[i].ev = "call" /\ log[i].depth > 0 /\ ~HasInput(log[i].dir)) =>
               /\ log[i].dir \notin DOMAIN out
               /\ Len(log) >= i + 2
               /\ log[i + 1].ev = "warn" /\ log[i + 1].dir = log[i].dir
               /\ log[i + 2].ev = "return" /\ log[i + 2].dir = log[i].dir
               /\ \E w \in 1..Len(warnings) : warnings[w] = log[i].dir
               /\ \A j \in 1..Len(log) :
                      log[j].ev \in {"call", "open"} => ~Below(log[j].dir, log[i].dir)
               /\ Len(log) = i + 2 => status = "running"
               /\ Len(log) > i + 2 =>
                      /\ log[i + 3].ev = "entry"
                      /\ log[i + 3].depth = log[i].depth - 1
                      /\ PathJoin(log[i + 3].dir, log[i + 3].stmt.args[1].value) = log[i].dir
                      /\ log[i + 3].text =
                             <<"s", "u", "b", "d", "i", "r", "(", "'">>
                             \o log[i].dir[Len(log[i].dir)] \o <<"'", ")", "\n">>
    /\ status = "done" =>
           \A d \in DOMAIN out : out[d] = Entries(ParseAll(fs[d].code).stmts, 1)

\* the root directory referred to a, which has no input file, and then to
\* its sibling b, which has one; both lines were written and b converted
C6_Witness ==
    /\ status = "done"
    /\ warnings = <<PathA>>
    /\ PathB \in DOMAIN out
    /\ out[PathB] = HashHi \o <<"\n">>
    /\ out[CmakeRoot] = <<"s", "u", "b", "d", "i", "r", "(", "'", "a", "'", ")", "\n",
                          "s", "u", "b", "d", "i", "r", "(", "'", "b", "'", ")", "\n">>

\* C7: when the root directory has no input file the run does not complete
\* normally: it ends with an error.
C7_MissingRootIsFatal ==
    (status # "start" /\ ~HasInput(CmakeRoot)) => status = "error"

\* whether the token kinds are a balanced sequence of '(' , ')' and
\* String, VariableExpansion and Identifier tokens, which is what the
\* grammar's arguments derives; depth is the number of open groups
RECURSIVE Balanced(_, _, _)
Balanced(kinds, k, depth) ==
    IF k > Len(kinds) THEN depth = 0
    ELSE IF kinds[k] = "lparen" THEN Balanced(kinds, k + 1, depth + 1)
    ELSE IF kinds[k] = "rparen" THEN depth > 0 /\ Balanced(kinds, k + 1, depth - 1)
    ELSE kinds[k] \in LeafKinds /\ Balanced(kinds, k + 1, depth)

\* the token kinds an argument list was parsed from
RECURSIVE Flatten(_, _)
Flatten(args, k) ==
    IF k > Len(args) THEN <<>>
    ELSE (IF args[k].tid = "list"
          THEN <<"lparen">> \o Flatten(args[k].items, 1) \o <<"rparen">>
          ELSE <<args[k].tid>>)
         \o Flatten(args, k + 1)

\* C8: a command whose parentheses hold any argument sequence the grammar
\* derives is parsed without error into one statement whose arguments
\* keep the order and the nesting of the input.
C8_ArgumentsParsed ==
    (/\ pstate \in {"done", "error"}
     /\ Len(pin) >= 3
     /\ pin[1] = "id" /\ pin[2] = "lparen" /\ pin[Len(pin)] = "rparen"
     /\ Balanced(SubSeq(pin, 3, Len(pin) - 1), 1, 0)) =>
        /\ pstate = "done"
        /\ Len(pstmts) = 1
        /\ Flatten(pstmts[1].args, 1) = SubSeq(pin, 3, Len(pin) - 1)

\* C9: every statement the parser yields is built from a Comment token or
\* named by an Identifier token; a token sequence that starts with any
\* other token kind yields no statement and ends in the syntax error.
C9_StatementHead ==
    /\ \A k \in 1..Len(pstmts) :
           \/ pstmts[k].head.tid = "comment" /\ pstmts[k].name = CommentName
           \/ pstmts[k].head.tid = "id" /\ pstmts[k].name = pstmts[k].head.value
    /\ (Len(pin) > 0 /\ pin[1] \notin {"id", "comment"} /\ pstate \in {"done", "error"}) =>
           /\ pstmts = <<>>
           /\ pstate = "error"
           /\ pps.err = "syntax"

\* C10: in a directory whose input file lexes and parses without error,
\* every argument convert_args receives (the arguments of set after the
\* first) is a String, VariableExpansion or Identifier token, and
\* convert_args does not raise.
C10_ConvertArgsReceivesLeaves ==
    \A i \in 1..Len(log) :
        (/\ IsEntry(log[i])
         /\ log[i].stmt.name = Set
         /\ ArgValue(log[i].stmt.args, 1).exc = "none"
         /\ ParseAll(fs[log[i].dir].code).ok) =>
            /\ AllLeaves(Tail(log[i].stmt.args))
            /\ log[i].ev = "entry"

=============================================================================
